---- MODULE Spec2Model ----
(***************************************************************************)
(* Flashcard progress records of japanese_study:                           *)
(*   flashcard_generation/add_ids_and_progress.py  (create_progress_entry, *)
(*   save_json, main) and the review scheduler (update, isDue) that reads  *)
(*   and rewrites the records of flashcard_progress.json.                  *)
(*                                                                         *)
(* Also: the progress store under concurrent callers (SpecC), batch        *)
(* generation in flashcard_generation/generate.py (SpecG), the id          *)
(* assignment on arbitrary card dictionaries (SpecI) and the /tts handlers *)
(* of kokoro/kokoro_tts_server.py and kokoro/simple_tts_server.py (SpecT). *)
(*                                                                         *)
(* Ease factors are kept in tenths (2.5 is 25), days are integers, and a   *)
(* nullable date is a sequence of length 0 (null) or 1.                    *)
(***************************************************************************)
EXTENDS Integers, Sequences, FiniteSets, TLC

\* ---- bounds of the model ------------------------------------------------
MaxCards == 2
MaxReviews == 3
MaxDay == 1
MaxTimes == 8

\* ---- program constants ---------------------------------------------------
InitialEase == 25
InitialInterval == 1
MinEase == 13
EaseBonus == 1
EasePenalty == 2
SecondInterval == 6

Words == {"neko"}
Outcomes == {"correct", "incorrect"}
RoundModes == {"half_even", "half_up"}
Paths == {"flashcards", "with_ids", "progress", "backup"}

VARIABLES
    files,          \* path -> [exists, complete, data]: the durable files
    pc,             \* position of the main() process of add_ids_and_progress.py
    fh,             \* path of the file main() has open for writing, or <<>>
    mem,            \* main()'s local lists
    now,            \* the clock, in days
    prev_progress,  \* the progress file as it was when main() last started
    store,          \* ProgressStore: card id -> record, in memory
    lock,           \* card id -> the caller holding the record's lock, or <<>>
    callers,        \* caller -> its position in a read-modify-write
    completed,      \* card id -> number of updates written back
    words,          \* generate.py: common_words, the lines of common.txt
    gen_pc,         \* generate.py: position of generate_flashcards()
    gen_i,          \* generate.py: i, the offset of the current batch
    task_status,    \* generate.py: task -> "pending", "ok" or "failed"
    task_result,    \* generate.py: task -> the dictionary it returned, or <<>>
    finished,       \* generate.py: the tasks in the order they completed
    batch_flashcards,   \* generate.py: what gather returned for the batch
    all_flashcards, \* generate.py: the cards collected so far
    server,         \* which TTS server runs: kokoro_tts_server or simple_tts_server
    tts_pc,         \* request -> position of its /tts handler
    tmp             \* request -> state of its temporary WAV file

store_vars == <<store, lock, callers, completed>>
gen_vars == <<words, gen_pc, gen_i, task_status, task_result, finished,
              batch_flashcards, all_flashcards>>
tts_vars == <<server, tts_pc, tmp>>
other_vars == <<store_vars, gen_vars, tts_vars>>
main_vars == <<files, pc, fh, mem, now, prev_progress>>
vars == <<main_vars, store_vars, gen_vars, tts_vars>>

Null == <<>>
Some(d) == <<d>>

NoFile == [exists |-> FALSE, complete |-> FALSE, data |-> <<>>]
FullFile(d) == [exists |-> TRUE, complete |-> TRUE, data |-> d]
NoMem == [flashcards |-> <<>>, flashcards_with_ids |-> <<>>, progress_data |-> <<>>]

\* ---- add_ids_and_progress.py ---------------------------------------------

\* variants of the initial entry, each differing from it in one field
entry_variant(card_id, date, iv, studied, cstreak, istreak) ==
    [id |-> card_id,
     date_last_studied |-> date,
     num_times_studied |-> 0,
     ease_factor |-> InitialEase,
     interval |-> iv,
     repetitions |-> 0,
     total_correct |-> 0,
     total_incorrect |-> 0,
     total_studied |-> studied,
     total_correct_streak |-> cstreak,
     total_incorrect_streak |-> istreak]

create_progress_entry_zero_interval(card_id) == entry_variant(card_id, Null, 0, 0, 0, 0)

create_progress_entry_one_studied(card_id) == entry_variant(card_id, Null, 1, 1, 0, 0)

create_progress_entry_correct_streak(card_id) == entry_variant(card_id, Null, 1, 0, 1, 0)

create_progress_entry_both_streaks(card_id) == entry_variant(card_id, Null, 1, 0, 1, 1)

create_progress_entry_dated(card_id) == entry_variant(card_id, Some(0), 1, 0, 0, 0)

create_progress_entry(card_id) ==
    [id |-> card_id,
     date_last_studied |-> Null,
     num_times_studied |-> 0,
     ease_factor |-> InitialEase,
     interval |-> InitialInterval,
     repetitions |-> 0,
     total_correct |-> 0,
     total_incorrect |-> 0,
     total_studied |-> 0,
     total_correct_streak |-> 0,
     total_incorrect_streak |-> 0]

\* {"id": i, **card}: the keys of card come last, so a card that carries an
\* "id" key keeps its own value
card_with_id(i, card) ==
    IF "id" \in DOMAIN card THEN card ELSE [id |-> i, word |-> card.word]

\* the for loop of main(): both lists are rebuilt from the flashcards alone
build_with_ids(flashcards) ==
    [i \in 1..Len(flashcards) |-> card_with_id(i, flashcards[i])]

\* every entry created with the same id
build_progress_same_id(flashcards) ==
    [i \in 1..Len(flashcards) |-> entry_variant(1, Null, 1, 0, 0, 0)]

\* enumerate(flashcards) without the start value
build_progress_zero_based(flashcards) ==
    [i \in 1..Len(flashcards) |-> entry_variant(i - 1, Null, 1, 0, 0, 0)]

build_progress(flashcards) ==
    [i \in 1..Len(flashcards) |-> create_progress_entry(i)]

\* which list the save at this position writes, and where
SaveTarget(p) ==
    CASE p = "save_ids" -> "with_ids"
      [] p = "save_progress" -> "progress"
      [] p = "save_backup" -> "backup"

SaveData(p) ==
    CASE p = "save_ids" -> mem.flashcards_with_ids
      [] p = "save_progress" -> mem.progress_data
      [] p = "save_backup" -> mem.flashcards

Saving == {"save_ids", "save_progress", "save_backup"}

\* position after the save at p returns
AfterSave(p, fs) ==
    CASE p = "save_ids" -> "save_progress"
      [] p = "save_progress" -> IF fs["backup"].exists THEN "done" ELSE "save_backup"
      [] p = "save_backup" -> "done"

\* main() up to the first save: load_flashcards and the loop
MainStart ==
    /\ pc = "idle"
    /\ files["flashcards"].exists /\ files["flashcards"].complete
    /\ mem' = [flashcards |-> files["flashcards"].data,
               flashcards_with_ids |-> build_with_ids(files["flashcards"].data),
               progress_data |-> build_progress(files["flashcards"].data)]
    /\ prev_progress' = files["progress"]
    /\ pc' = "save_ids"
    /\ UNCHANGED <<files, fh, now>>
    /\ UNCHANGED other_vars

\* save_json: open(filepath, 'w') creates or truncates the file
SaveOpen ==
    /\ pc \in Saving /\ fh = Null
    /\ files' = [files EXCEPT ![SaveTarget(pc)] =
                    [exists |-> TRUE, complete |-> FALSE, data |-> <<>>]]
    /\ fh' = Some(SaveTarget(pc))
    /\ UNCHANGED <<pc, mem, now, prev_progress>>
    /\ UNCHANGED other_vars

\* save_json: json.dump writes the list piece by piece
SaveDump ==
    /\ pc \in Saving /\ fh = Some(SaveTarget(pc))
    /\ Len(files[SaveTarget(pc)].data) < Len(SaveData(pc))
    /\ files' = [files EXCEPT ![SaveTarget(pc)].data =
                    Append(@, SaveData(pc)[Len(@) + 1])]
    /\ UNCHANGED <<pc, fh, mem, now, prev_progress>>
    /\ UNCHANGED other_vars

\* save_json: the with block closes the file after the last piece
SaveClose ==
    /\ pc \in Saving /\ fh = Some(SaveTarget(pc))
    /\ Len(files[SaveTarget(pc)].data) = Len(SaveData(pc))
    /\ files' = [files EXCEPT ![SaveTarget(pc)].complete = TRUE]
    /\ fh' = Null
    /\ pc' = AfterSave(pc, files')
    /\ UNCHANGED <<mem, now, prev_progress>>
    /\ UNCHANGED other_vars

\* the process dies, or a write raises and the exception ends main()
Crash ==
    /\ pc \in Saving
    /\ pc' = IF pc = "save_progress" /\ fh # Null THEN "crashed_in_save" ELSE "crashed"
    /\ fh' = Null
    /\ mem' = NoMem
    /\ UNCHANGED <<files, now, prev_progress>>
    /\ UNCHANGED other_vars

\* the process is gone; the script can be run again
Exit ==
    /\ pc \in {"done", "crashed", "crashed_in_save"}
    /\ pc' = "idle"
    /\ mem' = NoMem
    /\ prev_progress' = NoFile
    /\ UNCHANGED <<files, fh, now>>
    /\ UNCHANGED other_vars

\* ---- review scheduler ----------------------------------------------------

Max(a, b) == IF a >= b THEN a ELSE b

\* round(x / 10) for x >= 0; a tie goes to the even neighbour or upward
Round(x, mode) ==
    LET q == x \div 10
        r == x % 10
    IN  IF r < 5 THEN q
        ELSE IF r > 5 THEN q + 1
        ELSE IF mode = "half_even" /\ q % 2 = 0 THEN q
        ELSE q + 1

\* the interval grown by the ease factor after its bonus
next_interval_after_bonus(streak, interval, ease, mode) ==
    IF streak = 1 THEN 1
    ELSE IF streak = 2 THEN SecondInterval
    ELSE Round(interval * (ease + EaseBonus), mode)

next_interval(streak, interval, ease, mode) ==
    IF streak = 1 THEN 1
    ELSE IF streak = 2 THEN SecondInterval
    ELSE Round(interval * ease, mode)

raise_ease(ease) == Max(MinEase, ease + EaseBonus)

\* the penalty without the clamp
lower_ease_unclamped(ease) == ease - EasePenalty

lower_ease(ease) == Max(MinEase, ease - EasePenalty)

update(r, outcome, t, mode) ==
    IF outcome = "correct"
    THEN [r EXCEPT
            !.repetitions = @ + 1,
            !.total_correct_streak = @ + 1,
            !.total_incorrect_streak = 0,
            !.interval = next_interval(r.repetitions + 1, r.interval, r.ease_factor, mode),
            !.ease_factor = raise_ease(@),
            !.total_correct = @ + 1,
            !.total_studied = @ + 1,
            !.num_times_studied = @ + 1,
            !.date_last_studied = Some(t)]
    ELSE [r EXCEPT
            !.repetitions = 0,
            !.total_incorrect_streak = @ + 1,
            !.total_correct_streak = 0,
            !.interval = 1,
            !.ease_factor = lower_ease(@),
            !.total_incorrect = @ + 1,
            !.total_studied = @ + 1,
            !.num_times_studied = @ + 1,
            !.date_last_studied = Some(t)]

isDue(r, t) ==
    \/ r.date_last_studied = Null
    \/ t >= r.date_last_studied[1] + r.interval

RECURSIVE SumTimes(_)
SumTimes(s) ==
    IF s = <<>> THEN 0 ELSE s[1].num_times_studied + SumTimes(Tail(s))

Records == files["progress"].data

\* one review: get the record, update it, write it back through the store
ReviewStep(i, outcome, mode) ==
    /\ pc = "idle"
    /\ files["progress"].exists /\ files["progress"].complete
    /\ i \in 1..Len(Records)
    /\ files' = [files EXCEPT !["progress"].data[i] = update(@, outcome, now, mode)]
    /\ UNCHANGED <<pc, fh, mem, now, prev_progress>>
    /\ UNCHANGED other_vars

Review ==
    /\ SumTimes(Records) < MaxReviews
    /\ \E i \in 1..MaxCards, outcome \in Outcomes, mode \in RoundModes :
          ReviewStep(i, outcome, mode)

Tick ==
    /\ pc = "idle"
    /\ now < MaxDay
    /\ now' = now + 1
    /\ UNCHANGED <<files, pc, fh, mem, prev_progress>>
    /\ UNCHANGED other_vars

\* ---- the system ----------------------------------------------------------

RECURSIVE SeqsUpTo(_, _)
SeqsUpTo(S, n) ==
    IF n = 0 THEN {<<>>}
    ELSE LET shorter == SeqsUpTo(S, n - 1)
         IN  shorter \cup {Append(s, x) : s \in {t \in shorter : Len(t) = n - 1}, x \in S}

\* a card of flashcards.json as generate.py writes it: no "id" key
Cards == [word : Words]

\* any card dictionary: with or without an "id" key of its own
CarriedIds == {2}
AnyCards == Cards \cup [word : Words, id : CarriedIds]

\* no caller of the in-memory store is running
StoreIdle ==
    /\ store = <<>>
    /\ lock = <<>>
    /\ callers = <<>>
    /\ completed = <<>>

\* no TTS server is running
TtsIdle ==
    /\ server = "off"
    /\ tts_pc = <<>>
    /\ tmp = <<>>

\* generate.py is not running
GenIdle ==
    /\ words = <<>>
    /\ gen_pc = "off"
    /\ gen_i = 0
    /\ task_status = <<>>
    /\ task_result = <<>>
    /\ finished = <<>>
    /\ batch_flashcards = <<>>
    /\ all_flashcards = <<>>

\* the script has not been started
MainIdle ==
    /\ pc = "idle"
    /\ fh = Null
    /\ mem = NoMem
    /\ now = 0
    /\ prev_progress = NoFile

Init ==
    /\ \E cards \in SeqsUpTo(Cards, MaxCards) :
          files = [p \in Paths |-> IF p = "flashcards" THEN FullFile(cards) ELSE NoFile]
    /\ MainIdle
    /\ StoreIdle
    /\ GenIdle
    /\ TtsIdle

Next ==
    \/ MainStart
    \/ SaveOpen
    \/ SaveDump
    \/ SaveClose
    \/ Crash
    \/ Exit
    \/ Review
    \/ Tick

Spec == Init /\ [][Next]_vars

\* ---- the id-assignment run alone, on any card dictionaries ---------------

InitI ==
    /\ \E cards \in SeqsUpTo(AnyCards, MaxCards) :
          files = [p \in Paths |-> IF p = "flashcards" THEN FullFile(cards) ELSE NoFile]
    /\ MainIdle
    /\ StoreIdle
    /\ GenIdle
    /\ TtsIdle

NextI ==
    \/ MainStart
    \/ SaveOpen
    \/ SaveDump
    \/ SaveClose
    \/ Crash
    \/ Exit

SpecI == InitI /\ [][NextI]_vars

\* ---- the scheduler alone, from any well-formed record --------------------

PoolReps == {1, 5, 6}
PoolIntervals == {1, 6, 20, 50}
PoolEases == {MinEase, MinEase + 1, InitialEase}
PoolLapses == {0, 1}

\* a record studied k times correctly and then lapses times incorrectly
PoolRecord(k, iv, e, lapses) ==
    [id |-> 1,
     date_last_studied |-> Some(0),
     num_times_studied |-> k + lapses,
     ease_factor |-> e,
     interval |-> iv,
     repetitions |-> IF lapses = 0 THEN k ELSE 0,
     total_correct |-> k,
     total_incorrect |-> lapses,
     total_studied |-> k + lapses,
     total_correct_streak |-> IF lapses = 0 THEN k ELSE 0,
     total_incorrect_streak |-> lapses]

Pool ==
    {create_progress_entry(1)} \cup
    {PoolRecord(k, iv, e, l) : k \in PoolReps, iv \in PoolIntervals,
                                e \in PoolEases, l \in PoolLapses}

InitU ==
    /\ \E r \in Pool :
          files = [p \in Paths |->
                     CASE p = "flashcards" -> FullFile(<<[word |-> "neko"]>>)
                       [] p = "with_ids" -> FullFile(build_with_ids(<<[word |-> "neko"]>>))
                       [] p = "progress" -> FullFile(<<r>>)
                       [] p = "backup" -> FullFile(<<[word |-> "neko"]>>)]
    /\ MainIdle
    /\ StoreIdle
    /\ GenIdle
    /\ TtsIdle

ReviewAny ==
    /\ Len(Records) = 1
    /\ Records[1].num_times_studied < MaxTimes
    /\ \E outcome \in Outcomes, mode \in RoundModes : ReviewStep(1, outcome, mode)

NextU ==
    \/ ReviewAny
    \/ Tick

SpecU == InitU /\ [][NextU]_vars

\* ---- concurrent callers of the progress store ----------------------------

MaxUpdates == 3
Callers == {"a", "b"}
StoreIds == 1..2

CallerIdle == [at |-> "idle", id |-> 0, outcome |-> "correct", local |-> <<>>]

\* the lock of a record can be taken by anybody, held or not
lock_free_always(l, id) == TRUE

lock_free(l, id) == l[id] = Null

RECURSIVE SumCompleted(_, _)
SumCompleted(f, ids) ==
    IF ids = {} THEN 0
    ELSE LET id == CHOOSE x \in ids : TRUE
         IN  f[id] + SumCompleted(f, ids \ {id})

InFlight == Cardinality({c \in Callers : callers[c].at # "idle"})

\* a caller starts an update of record id: it takes the record's lock
Acquire(c, id, outcome) ==
    /\ callers[c].at = "idle"
    /\ SumCompleted(completed, StoreIds) + InFlight < MaxUpdates
    /\ lock_free(lock, id)
    /\ lock' = [lock EXCEPT ![id] = Some(c)]
    /\ callers' = [callers EXCEPT ![c] =
                      [at |-> "locked", id |-> id, outcome |-> outcome, local |-> <<>>]]
    /\ UNCHANGED <<store, completed>>

\* get(id): the caller reads the record
Get(c) ==
    /\ callers[c].at = "locked"
    /\ callers' = [callers EXCEPT ![c].at = "read",
                                  ![c].local = <<store[callers[c].id]>>]
    /\ UNCHANGED <<store, lock, completed>>

\* update, then upsert(record): the caller writes the next record back
Upsert(c, mode) ==
    /\ callers[c].at = "read"
    /\ store' = [store EXCEPT ![callers[c].id] =
                    update(callers[c].local[1], callers[c].outcome, now, mode)]
    /\ completed' = [completed EXCEPT ![callers[c].id] = @ + 1]
    /\ callers' = [callers EXCEPT ![c].at = "written"]
    /\ UNCHANGED lock

\* the caller gives the record's lock back
Release(c) ==
    /\ callers[c].at = "written"
    /\ lock' = [lock EXCEPT ![callers[c].id] = Null]
    /\ callers' = [callers EXCEPT ![c] = CallerIdle]
    /\ UNCHANGED <<store, completed>>

not_store == <<main_vars, gen_vars, tts_vars>>

AcquireAny ==
    /\ \E c \in Callers, id \in StoreIds, outcome \in Outcomes : Acquire(c, id, outcome)
    /\ UNCHANGED not_store

GetAny ==
    /\ \E c \in Callers : Get(c)
    /\ UNCHANGED not_store

UpsertAny ==
    /\ \E c \in Callers, mode \in RoundModes : Upsert(c, mode)
    /\ UNCHANGED not_store

ReleaseAny ==
    /\ \E c \in Callers : Release(c)
    /\ UNCHANGED not_store

\* the store after bootstrap(1..n), no caller running
InitC ==
    /\ files = [p \in Paths |-> NoFile]
    /\ MainIdle
    /\ store = [id \in StoreIds |-> create_progress_entry(id)]
    /\ lock = [id \in StoreIds |-> Null]
    /\ callers = [c \in Callers |-> CallerIdle]
    /\ completed = [id \in StoreIds |-> 0]
    /\ GenIdle
    /\ TtsIdle

NextC ==
    \/ AcquireAny
    \/ GetAny
    \/ UpsertAny
    \/ ReleaseAny

SpecC == InitC /\ [][NextC]_vars

\* ---- generate.py ----------------------------------------------------------

MaxWords == 3
BatchSize == 2
GenWords == {"neko", "inu"}

Min(a, b) == IF a <= b THEN a ELSE b

\* common_words[i:i + batch_size]
BatchWords == SubSeq(words, gen_i + 1, Min(gen_i + BatchSize, Len(words)))

\* generate_single_flashcard: the parsed answer, or the fallback dictionary
\* when the call or the parse raised
generate_single_flashcard(word, ok) ==
    IF ok THEN [word |-> word, source |-> "model"]
    ELSE [word |-> word, source |-> "fallback"]

\* results listed in the order the tasks completed
gather_as_completed(results, order) ==
    [k \in 1..Len(results) |-> results[order[k]]]

\* asyncio.gather: results in the order of the awaitables passed
gather(results, order) ==
    [k \in 1..Len(results) |-> results[k]]

\* generate_flashcard_batch: one task per word of the batch
StartBatch ==
    /\ gen_pc = "loop"
    /\ gen_i < Len(words)
    /\ task_status' = [k \in 1..Len(BatchWords) |-> "pending"]
    /\ task_result' = [k \in 1..Len(BatchWords) |-> Null]
    /\ finished' = <<>>
    /\ batch_flashcards' = <<>>
    /\ gen_pc' = "gather"
    /\ UNCHANGED <<words, gen_i, all_flashcards>>
    /\ UNCHANGED <<main_vars, store_vars, tts_vars>>

\* one task of the batch returns, in any order, with or without an exception
\* inside its try block
TaskDone ==
    /\ gen_pc = "gather"
    /\ \E k \in 1..Len(task_status), ok \in BOOLEAN :
          /\ task_status[k] = "pending"
          /\ task_status' = [task_status EXCEPT ![k] = IF ok THEN "ok" ELSE "failed"]
          /\ task_result' = [task_result EXCEPT ![k] =
                                Some(generate_single_flashcard(BatchWords[k], ok))]
          /\ finished' = Append(finished, k)
    /\ UNCHANGED <<words, gen_pc, gen_i, batch_flashcards, all_flashcards>>
    /\ UNCHANGED <<main_vars, store_vars, tts_vars>>

\* gather returns once every task has; all_flashcards.extend(batch_flashcards)
GatherReturn ==
    /\ gen_pc = "gather"
    /\ \A k \in 1..Len(task_status) : task_status[k] # "pending"
    /\ batch_flashcards' = gather([k \in 1..Len(task_result) |-> task_result[k][1]], finished)
    /\ all_flashcards' = all_flashcards \o batch_flashcards'
    /\ gen_pc' = "save"
    /\ UNCHANGED <<words, gen_i, task_status, task_result, finished>>
    /\ UNCHANGED <<main_vars, store_vars, tts_vars>>

\* save_flashcards_to_file(all_flashcards, output_file), then the next i
SaveBatch ==
    /\ gen_pc = "save"
    /\ files' = [files EXCEPT !["flashcards"] = FullFile(all_flashcards)]
    /\ gen_i' = gen_i + BatchSize
    /\ gen_pc' = "loop"
    /\ UNCHANGED <<words, task_status, task_result, finished, batch_flashcards,
                   all_flashcards>>
    /\ UNCHANGED <<pc, fh, mem, now, prev_progress, store_vars, tts_vars>>

\* the range is exhausted: generate_flashcards returns all_flashcards
GenReturn ==
    /\ gen_pc = "loop"
    /\ gen_i >= Len(words)
    /\ gen_pc' = "done"
    /\ UNCHANGED <<words, gen_i, task_status, task_result, finished,
                   batch_flashcards, all_flashcards>>
    /\ UNCHANGED <<main_vars, store_vars, tts_vars>>

\* generate_flashcards() after load_words_from_file
InitG ==
    /\ files = [p \in Paths |-> NoFile]
    /\ MainIdle
    /\ StoreIdle
    /\ words \in SeqsUpTo(GenWords, MaxWords)
    /\ gen_pc = "loop"
    /\ gen_i = 0
    /\ task_status = <<>>
    /\ task_result = <<>>
    /\ finished = <<>>
    /\ batch_flashcards = <<>>
    /\ all_flashcards = <<>>
    /\ TtsIdle

NextG ==
    \/ StartBatch
    \/ TaskDone
    \/ GatherReturn
    \/ SaveBatch
    \/ GenReturn

SpecG == InitG /\ [][NextG]_vars

\* ---- kokoro_tts_server.py and simple_tts_server.py: POST /tts -------------

MaxRequests == 2
Requests == 1..MaxRequests
Servers == {"kokoro", "simple"}
Finished == {"responded_error", "closed"}

not_tts == <<main_vars, store_vars, gen_vars>>

\* 503, 400, or 500 from the except clause, before any file is created:
\* no model, no text, unknown voice, generation raised or gave no audio
Refuse(r) ==
    /\ tts_pc[r] = "received"
    /\ tts_pc' = [tts_pc EXCEPT ![r] = "responded_error"]
    /\ UNCHANGED <<server, tmp>>

\* tempfile.NamedTemporaryFile(suffix='.wav', delete=False), closed at once
CreateTemp(r) ==
    /\ tts_pc[r] = "received"
    /\ tmp' = [tmp EXCEPT ![r] = "empty"]
    /\ tts_pc' = [tts_pc EXCEPT ![r] = "created"]
    /\ UNCHANGED server

\* scipy.io.wavfile.write / sf.write: the audio is written, nothing is
\* written, or the write raises and the except clause answers 500
WriteAudio(r, outcome) ==
    /\ tts_pc[r] = "created"
    /\ tmp' = [tmp EXCEPT ![r] = IF outcome = "audio" THEN "audio" ELSE @]
    /\ tts_pc' = [tts_pc EXCEPT ![r] =
                      IF outcome = "raised" THEN "responded_error" ELSE "written"]
    /\ UNCHANGED server

\* simple_tts_server only: 500 when the file is missing or empty; then
\* send_file, which returns the response or raises into the except clause
SendFile(r, sent) ==
    /\ tts_pc[r] = "written"
    /\ tts_pc' = [tts_pc EXCEPT ![r] =
                      IF server = "simple" /\ tmp[r] # "audio" THEN "responded_error"
                      ELSE IF sent THEN "sending"
                      ELSE "responded_error"]
    /\ UNCHANGED <<server, tmp>>

\* the response is closed: cleanup() unlinks the temporary file
CloseResponse(r) ==
    /\ tts_pc[r] = "sending"
    /\ tmp' = [tmp EXCEPT ![r] = "none"]
    /\ tts_pc' = [tts_pc EXCEPT ![r] = "closed"]
    /\ UNCHANGED server

RefuseAny ==
    /\ \E r \in Requests : Refuse(r)
    /\ UNCHANGED not_tts

CreateTempAny ==
    /\ \E r \in Requests : CreateTemp(r)
    /\ UNCHANGED not_tts

WriteAudioAny ==
    /\ \E r \in Requests, outcome \in {"audio", "nothing", "raised"} : WriteAudio(r, outcome)
    /\ UNCHANGED not_tts

SendFileAny ==
    /\ \E r \in Requests, sent \in BOOLEAN : SendFile(r, sent)
    /\ UNCHANGED not_tts

CloseResponseAny ==
    /\ \E r \in Requests : CloseResponse(r)
    /\ UNCHANGED not_tts

InitT ==
    /\ files = [p \in Paths |-> NoFile]
    /\ MainIdle
    /\ StoreIdle
    /\ GenIdle
    /\ server \in Servers
    /\ tts_pc = [r \in Requests |-> "received"]
    /\ tmp = [r \in Requests |-> "none"]

NextT ==
    \/ RefuseAny
    \/ CreateTempAny
    \/ WriteAudioAny
    \/ SendFileAny
    \/ CloseResponseAny

SpecT == InitT /\ [][NextT]_vars

\* ---- properties -----------------------------------------------------------

RecordIds == 1..Len(Records)

\* C1: every progress record, fresh or after any sequence of updates, has
\* an ease factor of at least 1.3 and an interval of at least 1 day.
EaseAndIntervalClamped ==
    \A i \in RecordIds : Records[i].ease_factor >= 13 /\ Records[i].interval >= 1

\* a fresh record answered correctly once and incorrectly seven times:
\* 2.5 + 0.1 - 7 * 0.2 is below 1.3, so the clamp has acted
ClampReached ==
    \E i \in RecordIds :
        /\ Records[i].total_correct = 1
        /\ Records[i].total_incorrect = 7
        /\ Records[i].ease_factor = 13
        /\ Records[i].interval = 1

\* C2 (as claimed): when main() has run again, every record that existed
\* before the run is still in the progress file with the same fields.
BootstrapKeepsExisting ==
    (pc = "done" /\ prev_progress.complete) =>
        \A i \in 1..Len(prev_progress.data) :
            i <= Len(Records) /\ Records[i] = prev_progress.data[i]

\* C3: the record main() creates for card id c has id c, a null date,
\* ease factor 2.5, interval 1 and every counter 0.
FreshRecordFields ==
    LET fresh(c) == [id |-> c, date_last_studied |-> <<>>, num_times_studied |-> 0,
                     ease_factor |-> 25, interval |-> 1, repetitions |-> 0,
                     total_correct |-> 0, total_incorrect |-> 0, total_studied |-> 0,
                     total_correct_streak |-> 0, total_incorrect_streak |-> 0]
    IN  /\ \A i \in 1..Len(mem.progress_data) : mem.progress_data[i] = fresh(i)
        /\ pc = "done" => /\ Len(Records) = Len(files["flashcards"].data)
                          /\ \A i \in RecordIds : Records[i] = fresh(i)

FreshRecordsWritten ==
    pc = "done" /\ Len(Records) >= 2 /\ Len(mem.progress_data) >= 2

\* C4: total_studied = total_correct + total_incorrect in every record,
\* fresh or after any sequence of correct and incorrect answers.
TotalsAddUp ==
    \A i \in RecordIds :
        Records[i].total_studied = Records[i].total_correct + Records[i].total_incorrect

MixedOutcomesCounted ==
    \E i \in RecordIds :
        /\ Records[i].total_correct >= 1
        /\ Records[i].total_incorrect >= 1
        /\ Records[i].total_studied >= 3

\* C5 (as claimed): in every record exactly one of the two current streaks
\* is nonzero, the fresh record included.
ExactlyOneStreakNonzero ==
    \A i \in RecordIds :
        (Records[i].total_correct_streak > 0) # (Records[i].total_incorrect_streak > 0)

\* C5 (amended): a record never studied has both streaks 0; a record
\* studied at least once has exactly one of them nonzero.
StreaksAfterFirstReview ==
    \A i \in RecordIds :
        IF Records[i].num_times_studied = 0
        THEN Records[i].total_correct_streak = 0 /\ Records[i].total_incorrect_streak = 0
        ELSE (Records[i].total_correct_streak > 0) # (Records[i].total_incorrect_streak > 0)

FreshBesideStudied ==
    \E i, j \in RecordIds :
        /\ Records[i].num_times_studied = 0
        /\ Records[j].num_times_studied >= 2
        /\ Records[j].total_incorrect_streak >= 1
        /\ Records[j].total_correct >= 1

\* C6: streak exclusivity: a positive correct streak implies a zero incorrect
\* streak, and a positive incorrect streak implies a zero correct streak.
StreakExclusivity ==
    \A i \in RecordIds :
        /\ Records[i].total_correct_streak > 0 => Records[i].total_incorrect_streak = 0
        /\ Records[i].total_incorrect_streak > 0 => Records[i].total_correct_streak = 0

PolarityChanged ==
    \E i \in RecordIds :
        /\ Records[i].total_incorrect >= 1
        /\ Records[i].total_correct_streak >= 2

\* C7: a correct answer raises the repetition streak by 1 and sets the
\* interval to 1 at streak 1, to 6 at streak 2, and otherwise to the integer
\* nearest to the previous interval times the ease factor before its bonus.
CorrectAnswerRule ==
    [][ (/\ Len(Records) = 1
         /\ Len(files'["progress"].data) = 1
         /\ files'["progress"].data[1].total_correct = Records[1].total_correct + 1)
        => LET r == Records[1]
               s == files'["progress"].data[1]
           IN  /\ s.repetitions = r.repetitions + 1
               /\ s.repetitions = 1 => s.interval = 1
               /\ s.repetitions = 2 => s.interval = 6
               /\ s.repetitions >= 3 =>
                     /\ 10 * s.interval - 5 <= r.interval * r.ease_factor
                     /\ r.interval * r.ease_factor <= 10 * s.interval + 5
               /\ (r.repetitions = 5 /\ r.interval = 20 /\ r.ease_factor = 25)
                     => (s.repetitions = 6 /\ s.interval = 50) ]_vars

\* streak 5, interval 20, ease 2.5, answered correctly
ScenarioCReached ==
    /\ Len(Records) = 1
    /\ Records[1].repetitions = 6
    /\ Records[1].interval = 50
    /\ Records[1].ease_factor = 26
    /\ Records[1].total_correct = 6

\* C8: an incorrect answer sets the repetition streak to 0, the interval to
\* 1 and the correct streak to 0, raises the incorrect streak by 1 and lowers
\* the ease factor by 0.2, but not below 1.3.
IncorrectAnswerRule ==
    [][ (/\ Len(Records) = 1
         /\ Len(files'["progress"].data) = 1
         /\ files'["progress"].data[1].total_incorrect = Records[1].total_incorrect + 1)
        => LET r == Records[1]
               s == files'["progress"].data[1]
           IN  /\ s.repetitions = 0
               /\ s.interval = 1
               /\ s.total_correct_streak = 0
               /\ s.total_incorrect_streak = r.total_incorrect_streak + 1
               /\ s.ease_factor = (IF r.ease_factor - 2 < 13 THEN 13 ELSE r.ease_factor - 2) ]_vars

\* streak 6, interval 50, ease 2.5, answered incorrectly
ScenarioDReached ==
    /\ Len(Records) = 1
    /\ Records[1].total_correct = 6
    /\ Records[1].total_incorrect = 1
    /\ Records[1].repetitions = 0
    /\ Records[1].interval = 1
    /\ Records[1].ease_factor = 23
    /\ Records[1].total_incorrect_streak = 1
    /\ Records[1].total_correct_streak = 0

\* C9: a record is not due exactly when it has been studied and fewer than
\* interval days have passed since; a record never studied is due on every
\* day, and a fresh record answered correctly on day 0 is due from day 1 on.
DueRule ==
    \A i \in RecordIds, d \in 0..(MaxDay + 7) :
        LET r == Records[i]
        IN  /\ ~isDue(r, d) <=>
                  (Len(r.date_last_studied) = 1 /\ d - r.date_last_studied[1] < r.interval)
            /\ r.num_times_studied = 0 => isDue(r, d)
            /\ (r.num_times_studied = 1 /\ r.total_correct = 1 /\ r.date_last_studied = <<0>>)
                  => (isDue(r, d) <=> d >= 1)

FirstAnswerDueNextDay ==
    /\ now = 1
    /\ \E i, j \in RecordIds :
          /\ Records[i].num_times_studied = 1
          /\ Records[i].total_correct = 1
          /\ Records[i].date_last_studied = <<0>>
          /\ isDue(Records[i], now)
          /\ Records[j].num_times_studied = 0

\* C10 (as claimed): when main() dies while writing the progress file, the
\* file still holds the complete collection it held before the run.
SaveIsAtomic ==
    (pc = "crashed_in_save" /\ prev_progress.complete) => files["progress"] = prev_progress

\* C11: the complete progress file holds one record per flashcard, and the
\* ids of its records are 1..n in order, so no two records share an id.
OneRecordPerCard ==
    files["progress"].complete =>
        /\ Len(Records) = Len(files["flashcards"].data)
        /\ \A i \in RecordIds : Records[i].id = i
        /\ \A i, j \in RecordIds : Records[i].id = Records[j].id => i = j

TwoRecordsPersisted ==
    /\ files["progress"].complete
    /\ pc = "idle"
    /\ Len(Records) >= 2
    /\ \E i \in RecordIds : Records[i].num_times_studied >= 1

\* C13 (as claimed): when the run is done, the card at position i of
\* flashcards_with_ids has id i and so has the progress record at position i,
\* whatever keys the input card carried.
IdsMatchPositions ==
    pc = "done" =>
        \A i \in 1..Len(files["with_ids"].data) :
            /\ files["with_ids"].data[i].id = i
            /\ i <= Len(Records)
            /\ Records[i].id = files["with_ids"].data[i].id

\* C12: updates of one record never interleave and none is lost: a record's
\* num_times_studied is the number of updates written back to it, and two
\* callers in the middle of an update work on different records.
UpdatesSerialized ==
    /\ \A id \in DOMAIN store : store[id].num_times_studied = completed[id]
    /\ \A c, d \in DOMAIN callers :
          (c # d /\ callers[c].at # "idle" /\ callers[d].at # "idle")
              => callers[c].id # callers[d].id

\* two callers have read different records at the same time, after an
\* earlier update of one of them was written back
IndependentUpdatesInFlight ==
    /\ DOMAIN callers = Callers
    /\ callers["a"].at = "read"
    /\ callers["b"].at = "read"
    /\ callers["a"].id # callers["b"].id
    /\ completed[callers["a"].id] = 1

\* C14: the batch returns one card per word of the batch, in the order of
\* the words whatever the order of completion; the card of a word is the
\* fallback exactly when the call for that word failed; and after a batch is
\* saved the file holds one card per word of all batches so far, in order.
BatchKeepsOrder ==
    /\ gen_pc = "save" =>
          /\ Len(batch_flashcards) = Len(BatchWords)
          /\ \A k \in 1..Len(batch_flashcards) :
                /\ batch_flashcards[k].word = BatchWords[k]
                /\ batch_flashcards[k].source = "fallback" <=> task_status[k] = "failed"
    /\ (gen_pc \in {"loop", "done"} /\ gen_i > 0) =>
          /\ files["flashcards"].complete
          /\ Len(files["flashcards"].data) = Min(gen_i, Len(words))
          /\ \A k \in 1..Len(files["flashcards"].data) :
                files["flashcards"].data[k].word = words[k]

\* a saved batch whose tasks completed out of order, one of them failing
OutOfOrderBatchSaved ==
    /\ gen_pc = "loop"
    /\ gen_i > 0
    /\ Len(finished) >= 2
    /\ finished[1] # 1
    /\ \E k \in 1..Len(task_status) : task_status[k] = "failed"
    /\ \E k \in 1..Len(task_status) : task_status[k] = "ok"
    /\ words[1] # words[2]
    /\ Len(files["flashcards"].data) >= 2

\* C15 (as claimed): once the handler of a /tts request has returned and its
\* response is closed, the temporary WAV file it created is gone, on the
\* successful path and on the 500 paths alike.
TempFilesDeleted ==
    \A r \in DOMAIN tts_pc : tts_pc[r] \in Finished => tmp[r] = "none"
====
